---------------------------- MODULE Spec2Model ----------------------------
(***************************************************************************)
(* Grid pairing: the grid constraint model (gridpairing/grid.py), the      *)
(* greedy baseline SolverNaive and the min-cost-flow solver                *)
(* SolverBellmanFord with its Graph (gridpairing/solvers.py).              *)
(*                                                                         *)
(* A cell (i, j) is the tuple <<i, j>>.  A pair is <<c1, c2>>.  The two    *)
(* sentinel nodes "S" and "T" of the flow network are encoded as tuples    *)
(* too, so that every node of the network has the same shape.              *)
(***************************************************************************)
EXTENDS Integers, Sequences, FiniteSets, TLC

\* ------------------------------------------------------------------ bounds
MaxN == 2
MaxM == 2
MaxVal == 3

\* float("inf") of bellman_ford: larger than the cost of any path of a graph
\* the model builds.
INF == 1000000

VARIABLES
    grid,             \* the Grid: [n, m, color, value]
    naive_pairs,      \* SolverNaive.pairs
    naive_pc,         \* "none": no SolverNaive yet; "done": constructed and run
    naive_ret,        \* the value the last SolverNaive.run() returned
    bf_pairs,         \* SolverBellmanFord.pairs
    graph,            \* SolverBellmanFord.graph: [nodes, capacity, cost, flow, neigh, adj_list]
    cost_cache,       \* SolverBellmanFord.cost_cache
    forbidden_cache,  \* SolverBellmanFord.forbidden_cache
    total_cost,       \* min_cost_flow's local total_cost
    bf_pc,            \* position of SolverBellmanFord.run(): "init", "flow", "done", "raised"
    bf_ret,           \* the value the last SolverBellmanFord.run() returned
    bf_err,           \* <<k>> when the last run() ended raising KeyError(k), else <<>>
    bf_first,         \* history: outcome of the first finished run() of the instance
    added             \* history: the (u, v) of the add_edge calls on the current Graph, in order

vars == <<grid, naive_pairs, naive_pc, naive_ret, bf_pairs, graph, cost_cache,
          forbidden_cache, total_cost, bf_pc, bf_ret, bf_err, bf_first, added>>

\* A returned value is kept as a one-element list; the empty list is "nothing
\* returned (yet)".  None is the empty tuple as well.
NoVal == <<>>
None == <<>>

\* ------------------------------------------------------------- utilities
Abs(x) == IF x < 0 THEN -x ELSE x

Min(a, b) == IF a < b THEN a ELSE b

Range(s) == {s[k] : k \in 1..Len(s)}

RECURSIVE SumSet(_, _)
\* The sum of f[x] over the finite set S.
SumSet(S, f) ==
    IF S = {} THEN 0
    ELSE LET x == CHOOSE y \in S : TRUE IN f[x] + SumSet(S \ {x}, f)

RECURSIVE ListsOf(_)
\* Every list holding each element of S exactly once.
ListsOf(S) ==
    IF S = {} THEN {<<>>}
    ELSE UNION {{<<x>> \o l : l \in ListsOf(S \ {x})} : x \in S}

\* ------------------------------------------------------------------ Grid
Cells(n, m) == {<<i, j>> : i \in 0..(n - 1), j \in 0..(m - 1)}

GridCells == Cells(grid.n, grid.m)

Colors == 0..4   \* colors_list = ['w', 'r', 'b', 'g', 'k']

\* The grids the model draws its input from, of every dimension up to
\* MaxN x MaxM:
\*  - every coloring, with the values Grid.__init__ gives by default (all 1);
\*  - every coloring without blue, with every value matrix over 1..MaxVal.
\* Blue and red have the same rule and are told apart by no rule (each tests
\* c > 2 or c in {0, 3}), so a grid with blue cells behaves as the grid with
\* red in their place.
GridsOver(colors, values) ==
    UNION {[n : {n}, m : {m}, color : [Cells(n, m) -> colors],
            value : [Cells(n, m) -> values]] : n \in 1..MaxN, m \in 1..MaxM}

Grids == GridsOver(Colors, {1}) \cup GridsOver(Colors \ {2}, 1..MaxVal)

is_forbidden(i, j) == grid.color[<<i, j>>] = 4

non_adjacent(c1, c2) ==
    IF (c1[2] = c2[2] /\ Abs(c1[1] - c2[1]) = 1) \/ (c1[1] = c2[1] /\ Abs(c1[2] - c2[2]) = 1)
    THEN FALSE
    ELSE TRUE

\* color_rules[a](c): TRUE when a cell of color a may not take a cell of color c.
color_rules(a, c) ==
    CASE a = 0 -> FALSE
      [] a = 1 -> c > 2
      [] a = 2 -> c > 2
      [] a = 3 -> c \notin {0, 3}
      [] a = 4 -> TRUE

colors_forbidden(c1, c2) == color_rules(grid.color[c1], grid.color[c2])

\* test_pair without the is_forbidden test of the second cell.
test_pair_first_cell_only(c1, c2) ==
    ~(is_forbidden(c1[1], c1[2]) \/ non_adjacent(c1, c2) \/ colors_forbidden(c1, c2))

test_pair(c1, c2) ==
    ~(is_forbidden(c1[1], c1[2]) \/ is_forbidden(c2[1], c2[2])
      \/ non_adjacent(c1, c2) \/ colors_forbidden(c1, c2))

cost(pair) == Abs(grid.value[pair[1]] - grid.value[pair[2]])

RECURSIVE all_pairs_scan_below_untested(_)
\* The scan with the below neighbor appended without test_pair.
all_pairs_scan_below_untested(k) ==
    IF k >= grid.n * grid.m THEN <<>>
    ELSE LET i == k \div grid.m
             j == k % grid.m
             right == IF j + 1 < grid.m /\ test_pair(<<i, j>>, <<i, j + 1>>)
                      THEN << <<(<<i, j>>), (<<i, j + 1>>)>> >> ELSE <<>>
             below == IF i + 1 < grid.n
                      THEN << <<(<<i, j>>), (<<i + 1, j>>)>> >> ELSE <<>>
         IN right \o below \o all_pairs_scan_below_untested(k + 1)

RECURSIVE all_pairs_scan_right_only(_)
\* The scan with the right neighbor only.
all_pairs_scan_right_only(k) ==
    IF k >= grid.n * grid.m THEN <<>>
    ELSE LET i == k \div grid.m
             j == k % grid.m
             right == IF j + 1 < grid.m /\ test_pair(<<i, j>>, <<i, j + 1>>)
                      THEN << <<(<<i, j>>), (<<i, j + 1>>)>> >> ELSE <<>>
         IN right \o all_pairs_scan_right_only(k + 1)

RECURSIVE all_pairs_scan(_)
\* The list `pairs` of all_pairs after the cells k, k+1, ... (row-major) have
\* been scanned: for each cell its right neighbor, then its below neighbor.
all_pairs_scan(k) ==
    IF k >= grid.n * grid.m THEN <<>>
    ELSE LET i == k \div grid.m
             j == k % grid.m
             right == IF j + 1 < grid.m /\ test_pair(<<i, j>>, <<i, j + 1>>)
                      THEN << <<(<<i, j>>), (<<i, j + 1>>)>> >> ELSE <<>>
             below == IF i + 1 < grid.n /\ test_pair(<<i, j>>, <<i + 1, j>>)
                      THEN << <<(<<i, j>>), (<<i + 1, j>>)>> >> ELSE <<>>
         IN right \o below \o all_pairs_scan(k + 1)

\* all_pairs returns list(set(pairs)): the scanned pairs without duplicates, in
\* the iteration order of a set, which the language leaves open: any order.
all_pairs == ListsOf(Range(all_pairs_scan(0)))

\* ---------------------------------------------------------------- Solver
RECURSIVE SumCost(_)
SumCost(pairs) == IF pairs = <<>> THEN 0 ELSE cost(Head(pairs)) + SumCost(Tail(pairs))

RECURSIVE AddUnused_any_color(_, _, _)
\* The double loop of score() without the is_forbidden test.
AddUnused_any_color(S, used_cells, k) ==
    IF k >= grid.n * grid.m THEN S
    ELSE LET i == k \div grid.m
             j == k % grid.m
         IN AddUnused_any_color(IF <<i, j>> \notin used_cells
                                THEN S + grid.value[<<i, j>>] ELSE S,
                                used_cells, k + 1)

RECURSIVE AddUnused(_, _, _)
\* The double loop of score(): the cells from k on, row-major.
AddUnused(S, used_cells, k) ==
    IF k >= grid.n * grid.m THEN S
    ELSE LET i == k \div grid.m
             j == k % grid.m
         IN AddUnused(IF ~is_forbidden(i, j) /\ <<i, j>> \notin used_cells
                      THEN S + grid.value[<<i, j>>] ELSE S,
                      used_cells, k + 1)

score(pairs) ==
    LET S == SumCost(pairs)
        used_cells == UNION {{pairs[k][1], pairs[k][2]} : k \in 1..Len(pairs)}
    IN AddUnused(S, used_cells, 0)

\* ----------------------------------------------------------- SolverNaive
RECURSIVE InsertByCost(_, _)
\* x put into the cost-sorted list s behind every element whose cost is not
\* larger: list.sort is stable.
InsertByCost(s, x) ==
    IF s = <<>> THEN <<x>>
    ELSE IF cost(Head(s)) <= cost(x) THEN <<Head(s)>> \o InsertByCost(Tail(s), x)
    ELSE <<x>> \o s

RECURSIVE SortByCost(_)
SortByCost(s) ==
    IF s = <<>> THEN <<>>
    ELSE InsertByCost(SortByCost(SubSeq(s, 1, Len(s) - 1)), s[Len(s)])

RECURSIVE Select_first_cell_only(_, _, _)
\* The selection loop testing only the first cell of a pair against used_cells.
Select_first_cell_only(pairs, used_cells, selected_pairs) ==
    IF pairs = <<>> THEN selected_pairs
    ELSE LET pair == Head(pairs)
         IN IF pair[1] \notin used_cells
            THEN Select_first_cell_only(Tail(pairs), used_cells \cup {pair[1], pair[2]},
                                        Append(selected_pairs, pair))
            ELSE Select_first_cell_only(Tail(pairs), used_cells, selected_pairs)

RECURSIVE Select(_, _, _)
\* The selection loop of SolverNaive.run over the sorted pairs.
Select(pairs, used_cells, selected_pairs) ==
    IF pairs = <<>> THEN selected_pairs
    ELSE LET pair == Head(pairs)
         IN IF pair[1] \notin used_cells /\ pair[2] \notin used_cells
            THEN Select(Tail(pairs), used_cells \cup {pair[1], pair[2]},
                        Append(selected_pairs, pair))
            ELSE Select(Tail(pairs), used_cells, selected_pairs)

\* What SolverNaive.run() leaves in pairs when all_pairs() returned `order`.
naive_select(order) == Select(SortByCost(order), {}, <<>>)

\* run() of SolverNaive keeping track of the used cells in the grid itself,
\* by coloring them black.
NaiveRun_marks_grid ==
    /\ bf_pc # "flow"
    /\ \E selected_pairs \in {naive_select(order) : order \in all_pairs} :
        /\ naive_pairs' = selected_pairs
        /\ naive_ret' = <<score(selected_pairs)>>
        /\ grid' = [grid EXCEPT !.color =
                        [c \in GridCells |->
                            IF \E k \in 1..Len(selected_pairs) :
                                   c \in {selected_pairs[k][1], selected_pairs[k][2]}
                            THEN 4 ELSE grid.color[c]]]
    /\ naive_pc' = "done"
    /\ UNCHANGED <<bf_pairs, graph, cost_cache, forbidden_cache,
                   total_cost, bf_pc, bf_ret, bf_err, bf_first, added>>

\* SolverNaive(grid).run(), or run() again on the instance.  The solvers run to
\* completion on one thread, so no run() starts inside another.
NaiveRun ==
    /\ bf_pc # "flow"
    /\ \E selected_pairs \in {naive_select(order) : order \in all_pairs} :
        /\ naive_pairs' = selected_pairs
        /\ naive_ret' = <<score(selected_pairs)>>
    /\ naive_pc' = "done"
    /\ UNCHANGED <<grid, bf_pairs, graph, cost_cache, forbidden_cache,
                   total_cost, bf_pc, bf_ret, bf_err, bf_first, added>>

\* ----------------------------------------------------------------- Graph
source == <<-1, -1>>   \* self.source = "S"
sink == <<-2, -2>>     \* self.sink = "T"

\* Graph(): five empty dicts.  capacity, cost and flow are keyed by the edge
\* <<u, v>>; nodes is the key order of self.capacity.
EmptyGraph ==
    [nodes |-> <<>>, capacity |-> <<>>, cost |-> <<>>, flow |-> <<>>,
     neigh |-> <<>>, adj_list |-> <<>>]

\* The "for node in [u, v]" loop of add_edge for one node: its empty entries.
register(g, node) ==
    IF node \in DOMAIN g.adj_list THEN g
    ELSE [g EXCEPT !.nodes = Append(@, node),
                   !.neigh = (node :> {}) @@ @,
                   !.adj_list = (node :> <<>>) @@ @]

\* add_edge with the reciprocal edge given the cost of the principal edge.
link_same_cost(g, u, v, cap, c) ==
    [nodes |-> g.nodes,
     capacity |-> (<<v, u>> :> 0) @@ (<<u, v>> :> cap) @@ g.capacity,
     cost |-> (<<v, u>> :> c) @@ (<<u, v>> :> c) @@ g.cost,
     flow |-> (<<v, u>> :> 0) @@ (<<u, v>> :> 0) @@ g.flow,
     neigh |-> [[g.neigh EXCEPT ![u] = @ \cup {v}] EXCEPT ![v] = @ \cup {u}],
     adj_list |-> [[g.adj_list EXCEPT ![u] = Append(@, v)] EXCEPT ![v] = Append(@, u)]]

\* The principal edge u -> v, then the reciprocal edge v -> u, on a graph that
\* holds both nodes.  (capacity, cost and flow of <<u, u>> end as the
\* reciprocal edge sets them.)
link(g, u, v, cap, c) ==
    [nodes |-> g.nodes,
     capacity |-> (<<v, u>> :> 0) @@ (<<u, v>> :> cap) @@ g.capacity,
     cost |-> (<<v, u>> :> -c) @@ (<<u, v>> :> c) @@ g.cost,
     flow |-> (<<v, u>> :> 0) @@ (<<u, v>> :> 0) @@ g.flow,
     neigh |-> [[g.neigh EXCEPT ![u] = @ \cup {v}] EXCEPT ![v] = @ \cup {u}],
     adj_list |-> [[g.adj_list EXCEPT ![u] = Append(@, v)] EXCEPT ![v] = Append(@, u)]]

add_edge(g, u, v, cap, c) == link(register(register(g, u), v), u, v, cap, c)

RECURSIVE relax_unless_queued(_, _, _, _)
\* The inner loop updating dist and pred only for a neighbor that is not in
\* the worklist already.
relax_unless_queued(g, st, u, vs) ==
    IF vs = <<>> THEN st
    ELSE LET v == Head(vs)
             new_cost == st.dist[u] + g.cost[<<u, v>>]
         IN IF /\ g.capacity[<<u, v>>] > g.flow[<<u, v>>]
               /\ new_cost < st.dist[v]
               /\ v \notin st.in_queue
            THEN relax_unless_queued(g,
                       [dist |-> [st.dist EXCEPT ![v] = new_cost],
                        pred |-> [st.pred EXCEPT ![v] = u],
                        queue |-> Append(st.queue, v),
                        in_queue |-> st.in_queue \cup {v}],
                       u, Tail(vs))
            ELSE relax_unless_queued(g, st, u, Tail(vs))

RECURSIVE relax(_, _, _, _)
\* The inner loop of bellman_ford: the neighbors vs of u still to visit.
\* st = [dist, pred, queue, in_queue]; in_queue is the set of nodes flagged True.
relax(g, st, u, vs) ==
    IF vs = <<>> THEN st
    ELSE LET v == Head(vs)
             new_cost == st.dist[u] + g.cost[<<u, v>>]
         IN IF g.capacity[<<u, v>>] > g.flow[<<u, v>>] /\ new_cost < st.dist[v]
            THEN relax(g,
                       [dist |-> [st.dist EXCEPT ![v] = new_cost],
                        pred |-> [st.pred EXCEPT ![v] = u],
                        queue |-> IF v \notin st.in_queue THEN Append(st.queue, v)
                                  ELSE st.queue,
                        in_queue |-> st.in_queue \cup {v}],
                       u, Tail(vs))
            ELSE relax(g, st, u, Tail(vs))

RECURSIVE bf_loop(_, _, _)
\* The end of a pass with the test "if dist[sink] < INF" alone: the search stops
\* as soon as the sink has a distance, whatever the worklist still holds.
bf_pass_end_sink_found(g, st1, t) ==
    IF t \notin DOMAIN st1.dist
    THEN [dist |-> st1.dist, pred |-> st1.pred, err |-> <<t>>, early |-> FALSE,
          queue |-> st1.queue]
    ELSE IF st1.dist[t] < INF
    THEN [dist |-> st1.dist, pred |-> st1.pred, err |-> <<>>, early |-> TRUE,
          queue |-> st1.queue]
    ELSE bf_loop(g, st1, t)

\* The end of a pass of the while loop of bellman_ford, st1 being the state
\* after the neighbors were visited: "if not queue and dist[sink] < INF".
bf_pass_end(g, st1, t) ==
    IF st1.queue = <<>>
    THEN \* `not queue` holds, so dist[sink] is read
         IF t \notin DOMAIN st1.dist
         THEN [dist |-> st1.dist, pred |-> st1.pred, err |-> <<t>>, early |-> FALSE,
               queue |-> st1.queue]
         ELSE IF st1.dist[t] < INF
         THEN [dist |-> st1.dist, pred |-> st1.pred, err |-> <<>>, early |-> TRUE,
               queue |-> st1.queue]
         ELSE bf_loop(g, st1, t)
    ELSE bf_loop(g, st1, t)

\* The while loop of bellman_ford.  The result is [dist, pred, err, early, queue]:
\* err is <<k>> when the lookup of a key k that is in no dict raises KeyError,
\* early tells that the return inside the loop was taken, queue is the worklist
\* as it is when the function is left.
bf_loop(g, st, t) ==
    IF st.queue = <<>>
    THEN [dist |-> st.dist, pred |-> st.pred, err |-> <<>>, early |-> FALSE,
          queue |-> st.queue]
    ELSE IF Head(st.queue) \notin DOMAIN g.adj_list
    THEN [dist |-> st.dist, pred |-> st.pred, err |-> <<Head(st.queue)>>, early |-> FALSE,
          queue |-> Tail(st.queue)]
    ELSE bf_pass_end(g,
                     relax(g,
                           [st EXCEPT !.queue = Tail(st.queue),
                                      !.in_queue = st.in_queue \ {Head(st.queue)}],
                           Head(st.queue), g.adj_list[Head(st.queue)]),
                     t)

bellman_ford(g, s, t) ==
    LET N == Range(g.nodes)
        dist == [x \in N \cup {s} |-> IF x = s THEN 0 ELSE INF]
        pred == [x \in N |-> None]
    IN bf_loop(g, [dist |-> dist, pred |-> pred, queue |-> <<s>>, in_queue |-> {s}], t)

RECURSIVE walk_reciprocal_residual(_, _, _, _, _)
\* The path reconstruction taking the residual capacity of the reciprocal
\* edge (v, u) for that of the edge (u, v).
walk_reciprocal_residual(g, pred, s, v, acc) ==
    IF v = s THEN acc
    ELSE LET u == pred[v]
         IN IF u = None THEN [path |-> acc.path, flow |-> 0]
            ELSE walk_reciprocal_residual(g, pred, s, u,
                      [path |-> Append(acc.path, <<u, v>>),
                       flow |-> Min(acc.flow, g.capacity[<<v, u>>] - g.flow[<<v, u>>])])

RECURSIVE walk(_, _, _, _, _)
\* The path reconstruction of min_cost_flow, from node v back to the source:
\* [path, flow].
walk(g, pred, s, v, acc) ==
    IF v = s THEN acc
    ELSE LET u == pred[v]
         IN IF u = None THEN [path |-> acc.path, flow |-> 0]
            ELSE walk(g, pred, s, u,
                      [path |-> Append(acc.path, <<u, v>>),
                       flow |-> Min(acc.flow, g.capacity[<<u, v>>] - g.flow[<<u, v>>])])

RECURSIVE push_signs_swapped(_, _, _, _)
\* The flow update with the two signs exchanged: the flow of the edge of the
\* path is decremented, the flow of its reciprocal edge incremented.
push_signs_swapped(g, tc, path, f) ==
    IF path = <<>> THEN [graph |-> g, total_cost |-> tc]
    ELSE push_signs_swapped([g EXCEPT !.flow[Head(path)] = @ - f,
                                      !.flow[<<Head(path)[2], Head(path)[1]>>] = @ + f],
                            tc + g.cost[Head(path)] * f, Tail(path), f)

RECURSIVE push_forward_only(_, _, _, _)
\* The flow update without the decrement of the reciprocal edge.
push_forward_only(g, tc, path, f) ==
    IF path = <<>> THEN [graph |-> g, total_cost |-> tc]
    ELSE push_forward_only([g EXCEPT !.flow[Head(path)] = @ + f],
                           tc + g.cost[Head(path)] * f, Tail(path), f)

RECURSIVE push(_, _, _, _)
\* "Changes flow along the way": [graph, total_cost] after the edges of path.
push(g, tc, path, f) ==
    IF path = <<>> THEN [graph |-> g, total_cost |-> tc]
    ELSE push([g EXCEPT !.flow[Head(path)] = @ + f,
                        !.flow[<<Head(path)[2], Head(path)[1]>>] = @ - f],
              tc + g.cost[Head(path)] * f, Tail(path), f)

RECURSIVE decode_adj_nonzero_flow(_, _, _, _, _)
\* The decoding with the test "flow != 0" in place of "flow == 1".
decode_adj_nonzero_flow(g, s, t, u, vs) ==
    IF vs = <<>> THEN <<>>
    ELSE LET v == Head(vs)
         IN (IF v # s /\ v # t /\ g.flow[<<u, v>>] # 0 THEN << <<u, v>> >> ELSE <<>>)
            \o decode_adj_nonzero_flow(g, s, t, u, Tail(vs))

RECURSIVE decode_adj(_, _, _, _, _)
decode_adj(g, s, t, u, vs) ==
    IF vs = <<>> THEN <<>>
    ELSE LET v == Head(vs)
         IN (IF v # s /\ v # t /\ g.flow[<<u, v>>] = 1 THEN << <<u, v>> >> ELSE <<>>)
            \o decode_adj(g, s, t, u, Tail(vs))

RECURSIVE decode(_, _, _, _)
\* "Gives all the positive-flow pairs": the nodes in the key order of capacity.
decode(g, s, t, nodes) ==
    IF nodes = <<>> THEN <<>>
    ELSE LET u == Head(nodes)
         IN (IF u = s \/ u = t THEN <<>> ELSE decode_adj(g, s, t, u, g.adj_list[u]))
            \o decode(g, s, t, Tail(nodes))

\* ----------------------------------------------------- SolverBellmanFord
\* The solver's own state while build_graph runs:
\* sv = [graph, cost_cache, forbidden_cache, added].
FreshSolver ==
    [graph |-> EmptyGraph, cost_cache |-> <<>>, forbidden_cache |-> <<>>, added |-> <<>>]

\* is_forbidden_cached: the cache after the call; the call returns its entry.
is_forbidden_cached(sv, i, j) ==
    IF <<i, j>> \notin DOMAIN sv.forbidden_cache
    THEN [sv EXCEPT !.forbidden_cache = (<<i, j>> :> is_forbidden(i, j)) @@ @]
    ELSE sv

\* get_cost_cached, likewise.
get_cost_cached(sv, pair) ==
    IF pair \notin DOMAIN sv.cost_cache
    THEN [sv EXCEPT !.cost_cache = (pair :> cost(pair)) @@ @]
    ELSE sv

\* self.graph.add_edge(u, v, cap, c), and the record of the call.
graph_add_edge(sv, u, v, cap, c) ==
    [sv EXCEPT !.graph = add_edge(@, u, v, cap, c), !.added = Append(@, <<u, v>>)]

\* The directions of the scan of all_pairs (right, below) in place of the four.
directions_right_below == << <<0, 1>>, <<1, 0>> >>

directions == << <<0, 1>>, <<1, 0>>, <<0, -1>>, <<-1, 0>> >>

RECURSIVE add_edges_from(_, _, _)
\* The edge cell -> neighbor with the cost sv2 has cached for the pair.
add_cached_edge(sv2, cell, neighbor) ==
    graph_add_edge(sv2, cell, neighbor, 1, sv2.cost_cache[<<cell, neighbor>>])

\* The body of the loop of add_edges_from without the test_pair condition.
add_edge_to_untested(sv1, cell, neighbor) ==
    IF ~sv1.forbidden_cache[neighbor]
    THEN add_cached_edge(get_cost_cached(sv1, <<cell, neighbor>>), cell, neighbor)
    ELSE sv1

\* The body of the loop of add_edges_from for an in-grid neighbor, sv1 being
\* the solver after is_forbidden_cached(ni, nj).
add_edge_to(sv1, cell, neighbor) ==
    IF ~sv1.forbidden_cache[neighbor] /\ test_pair(cell, neighbor)
    THEN add_cached_edge(get_cost_cached(sv1, <<cell, neighbor>>), cell, neighbor)
    ELSE sv1

\* add_edges_from(cell), from direction number d on.
add_edges_from(sv, cell, d) ==
    IF d > Len(directions) THEN sv
    ELSE IF /\ 0 <= cell[1] + directions[d][1] /\ cell[1] + directions[d][1] < grid.n
            /\ 0 <= cell[2] + directions[d][2] /\ cell[2] + directions[d][2] < grid.m
    THEN add_edges_from(
             add_edge_to(
                 is_forbidden_cached(sv, cell[1] + directions[d][1],
                                     cell[2] + directions[d][2]),
                 cell, <<cell[1] + directions[d][1], cell[2] + directions[d][2]>>),
             cell, d + 1)
    ELSE add_edges_from(sv, cell, d + 1)

\* The body of the first loop of build_graph for cell (i, j), sv1 being the
\* solver after is_forbidden_cached(i, j).
classify(acc, sv1, i, j) ==
    IF sv1.forbidden_cache[<<i, j>>]
    THEN [acc EXCEPT !.sv = sv1]
    ELSE IF (i + j) % 2 = 0
    THEN [acc EXCEPT !.sv = sv1, !.even_cells = Append(@, <<i, j>>)]
    ELSE [acc EXCEPT !.sv = sv1, !.odd_cells = Append(@, <<i, j>>)]

RECURSIVE split_cells(_, _)
\* The first loop of build_graph from cell number k on:
\* [sv, even_cells, odd_cells].
split_cells(acc, k) ==
    IF k >= grid.n * grid.m THEN acc
    ELSE split_cells(classify(acc,
                              is_forbidden_cached(acc.sv, k \div grid.m, k % grid.m),
                              k \div grid.m, k % grid.m),
                     k + 1)

RECURSIVE link_even_capacity_two(_, _)
\* The loop over even_cells giving the edge from the source the capacity 2.
link_even_capacity_two(sv, even_cells) ==
    IF even_cells = <<>> THEN sv
    ELSE LET cell == Head(even_cells)
         IN link_even_capacity_two(
                add_edges_from(graph_add_edge(sv, source, cell, 2, 0), cell, 1),
                Tail(even_cells))

RECURSIVE link_even(_, _)
link_even(sv, even_cells) ==
    IF even_cells = <<>> THEN sv
    ELSE LET cell == Head(even_cells)
         IN link_even(add_edges_from(graph_add_edge(sv, source, cell, 1, 0), cell, 1),
                      Tail(even_cells))

RECURSIVE link_odd(_, _)
link_odd(sv, odd_cells) ==
    IF odd_cells = <<>> THEN sv
    ELSE link_odd(graph_add_edge(sv, Head(odd_cells), sink, 1, 0), Tail(odd_cells))

\* The two linking loops of build_graph, sp being what the first loop left.
link_cells(sp) == link_odd(link_even(sp.sv, sp.even_cells), sp.odd_cells)

build_graph(sv) ==
    link_cells(split_cells([sv |-> sv, even_cells |-> <<>>, odd_cells |-> <<>>], 0))

\* run() without "Reset graph & caches": build_graph on what the last run left.
BFRunStart_no_reset ==
    /\ bf_pc \in {"init", "done", "raised"}
    /\ \E sv \in {build_graph([graph |-> graph, cost_cache |-> cost_cache,
                                forbidden_cache |-> forbidden_cache, added |-> added])} :
          /\ graph' = sv.graph
          /\ cost_cache' = sv.cost_cache
          /\ forbidden_cache' = sv.forbidden_cache
          /\ added' = sv.added
    /\ bf_pairs' = <<>>
    /\ total_cost' = 0
    /\ bf_ret' = NoVal
    /\ bf_err' = <<>>
    /\ bf_pc' = "flow"
    /\ UNCHANGED <<grid, naive_pairs, naive_pc, naive_ret, bf_first>>

\* run(), up to the call of min_cost_flow: "Reset graph & caches", build_graph.
BFRunStart ==
    /\ bf_pc \in {"init", "done", "raised"}
    /\ \E sv \in {build_graph(FreshSolver)} :
          /\ graph' = sv.graph
          /\ cost_cache' = sv.cost_cache
          /\ forbidden_cache' = sv.forbidden_cache
          /\ added' = sv.added
    /\ bf_pairs' = <<>>
    /\ total_cost' = 0
    /\ bf_ret' = NoVal
    /\ bf_err' = <<>>
    /\ bf_pc' = "flow"
    /\ UNCHANGED <<grid, naive_pairs, naive_pc, naive_ret, bf_first>>

\* The pass that pushed flow along path, p = [graph, total_cost] being the outcome.
pushed(p, path) ==
    [state |-> "loop", graph |-> p.graph, total_cost |-> p.total_cost, err |-> <<>>,
     pairs |-> <<>>, path |-> path]

\* The path reconstruction and what follows it with the loop left after the
\* first push ("if" in place of "while"): the pairs are decoded at once.
augment_once(g, tc, s, t, w) ==
    IF w.flow = 0
    THEN [state |-> "return", graph |-> g, total_cost |-> tc, err |-> <<>>,
          pairs |-> decode(g, s, t, g.nodes), path |-> w.path]
    ELSE LET p == push(g, tc, w.path, w.flow)
         IN [state |-> "return", graph |-> p.graph, total_cost |-> p.total_cost,
             err |-> <<>>, pairs |-> decode(p.graph, s, t, p.graph.nodes),
             path |-> w.path]

\* The path reconstruction and what follows it in a pass of the loop of
\* min_cost_flow, w = [path, flow] being what the walk found.
augment(g, tc, s, t, w) ==
    IF w.flow = 0
    THEN [state |-> "return", graph |-> g, total_cost |-> tc, err |-> <<>>,
          pairs |-> decode(g, s, t, g.nodes), path |-> w.path]
    ELSE pushed(push(g, tc, w.path, w.flow), w.path)

\* A pass of the loop of min_cost_flow, r being what bellman_ford returned.
after_search(g, tc, s, t, r) ==
    IF r.err # <<>>
    THEN [state |-> "raise", graph |-> g, total_cost |-> tc, err |-> r.err,
          pairs |-> <<>>, path |-> <<>>]
    ELSE IF r.dist[t] = INF
    THEN [state |-> "return", graph |-> g, total_cost |-> tc, err |-> <<>>,
          pairs |-> decode(g, s, t, g.nodes), path |-> <<>>]
    ELSE augment(g, tc, s, t, walk(g, r.pred, s, t, [path |-> <<>>, flow |-> INF]))

\* One pass of the loop of min_cost_flow on graph g with total_cost tc:
\* [state, graph, total_cost, err, pairs, path], state being
\*  - "raise": bellman_ford raised KeyError(err[1]);
\*  - "return": the loop is left (no path, or flow == 0) and the pairs decoded;
\*  - "loop": the flow is pushed along the path and the loop goes on.
min_cost_flow_pass(g, tc, s, t) == after_search(g, tc, s, t, bellman_ford(g, s, t))

\* One pass of the loop of min_cost_flow, and what follows it in run(): on
\* KeyError run() ends with the exception, self.pairs as the reset left it;
\* when min_cost_flow returns, self.pairs is set and score() returned.
BFPass ==
    /\ bf_pc = "flow"
    /\ \E r \in {min_cost_flow_pass(graph, total_cost, source, sink)} :
          /\ graph' = r.graph
          /\ total_cost' = r.total_cost
          /\ bf_err' = r.err
          /\ bf_pairs' = r.pairs
          /\ bf_ret' = IF r.state = "return" THEN <<score(r.pairs)>> ELSE NoVal
          /\ bf_pc' = CASE r.state = "raise" -> "raised"
                        [] r.state = "return" -> "done"
                        [] r.state = "loop" -> "flow"
          /\ bf_first' = IF bf_first = <<>> /\ r.state # "loop"
                         THEN <<[ret |-> bf_ret', pairs |-> r.pairs, err |-> r.err]>>
                         ELSE bf_first
    /\ UNCHANGED <<grid, naive_pairs, naive_pc, naive_ret, cost_cache,
                   forbidden_cache, added>>

\* ------------------------------------------------------------- the program
\* A grid and a SolverBellmanFord constructed on it (Solver.__init__ leaves
\* all_pairs() in pairs, SolverBellmanFord.__init__ then empties it); the
\* SolverNaive comes with its first run.
Init ==
    /\ grid \in Grids
    /\ naive_pairs = <<>>
    /\ naive_pc = "none"
    /\ naive_ret = NoVal
    /\ bf_pairs = <<>>
    /\ graph = EmptyGraph
    /\ cost_cache = <<>>
    /\ forbidden_cache = <<>>
    /\ total_cost = 0
    /\ bf_pc = "init"
    /\ bf_ret = NoVal
    /\ bf_err = <<>>
    /\ bf_first = <<>>
    /\ added = <<>>

Next == NaiveRun \/ BFRunStart \/ BFPass

Spec == Init /\ [][Next]_vars

\* ------------------------------------------- the solvers, once constructed
\* SolverNaive(grid): Solver.__init__ leaves all_pairs() in pairs.
NaiveConstruct ==
    /\ naive_pc = "none"
    /\ bf_pc # "flow"
    /\ naive_pairs' \in all_pairs
    /\ naive_pc' = "init"
    /\ UNCHANGED <<grid, naive_ret, bf_pairs, graph, cost_cache, forbidden_cache,
                   total_cost, bf_pc, bf_ret, bf_err, bf_first, added>>

\* The grids given a color matrix only: Grid.__init__ fills in the value 1.
InitSolvers ==
    /\ grid \in GridsOver(Colors, {1})
    /\ naive_pairs = <<>>
    /\ naive_pc = "none"
    /\ naive_ret = NoVal
    /\ bf_pairs = <<>>
    /\ graph = EmptyGraph
    /\ cost_cache = <<>>
    /\ forbidden_cache = <<>>
    /\ total_cost = 0
    /\ bf_pc = "init"
    /\ bf_ret = NoVal
    /\ bf_err = <<>>
    /\ bf_first = <<>>
    /\ added = <<>>

\* Both solvers with the construction of SolverNaive as a step of its own,
\* between which and run() a caller can read pairs.
NextSolvers == NaiveConstruct \/ NaiveRun \/ BFRunStart \/ BFPass

SpecSolvers == InitSolvers /\ [][NextSolvers]_vars

\* ------------------------------------------------------- the Graph alone
\* A Graph driven through its own interface: add_edge calls on a few nodes,
\* then min_cost_flow(source, sink).
MaxCalls == 2   \* add_edge calls
MaxCap == 2     \* capacities 1..MaxCap
MaxCost == 1    \* costs 0..MaxCost

GraphNodes == {source, sink, <<0, 0>>}

\* Grid(1, 1): the default grid, which this specification leaves alone.
DefaultGrid ==
    [n |-> 1, m |-> 1, color |-> [c \in Cells(1, 1) |-> 0],
     value |-> [c \in Cells(1, 1) |-> 1]]

InitGraph ==
    /\ grid = DefaultGrid
    /\ naive_pairs = <<>>
    /\ naive_pc = "none"
    /\ naive_ret = NoVal
    /\ bf_pairs = <<>>
    /\ graph = EmptyGraph
    /\ cost_cache = <<>>
    /\ forbidden_cache = <<>>
    /\ total_cost = 0
    /\ bf_pc = "edges"
    /\ bf_ret = NoVal
    /\ bf_err = <<>>
    /\ bf_first = <<>>
    /\ added = <<>>

\* graph.add_edge(u, v, cap, c)
GraphAddEdge ==
    /\ bf_pc = "edges"
    /\ Len(added) < MaxCalls
    /\ \E u \in GraphNodes, v \in GraphNodes, cap \in 1..MaxCap, c \in 0..MaxCost :
        /\ graph' = add_edge(graph, u, v, cap, c)
        /\ added' = Append(added, <<u, v>>)
    /\ UNCHANGED <<grid, naive_pairs, naive_pc, naive_ret, bf_pairs, cost_cache,
                   forbidden_cache, total_cost, bf_pc, bf_ret, bf_err, bf_first>>

\* graph.min_cost_flow(source, sink) is called: pairs = [], total_cost = 0.
GraphFlowStart ==
    /\ bf_pc = "edges"
    /\ bf_pc' = "mcf"
    /\ bf_pairs' = <<>>
    /\ total_cost' = 0
    /\ UNCHANGED <<grid, naive_pairs, naive_pc, naive_ret, graph, cost_cache,
                   forbidden_cache, bf_ret, bf_err, bf_first, added>>

\* One pass of its loop; at the end the pairs it returns are kept in bf_pairs.
GraphFlowPass ==
    /\ bf_pc = "mcf"
    /\ \E r \in {min_cost_flow_pass(graph, total_cost, source, sink)} :
          /\ graph' = r.graph
          /\ total_cost' = r.total_cost
          /\ bf_err' = r.err
          /\ bf_pairs' = r.pairs
          /\ bf_pc' = CASE r.state = "raise" -> "mcf_raised"
                        [] r.state = "return" -> "mcf_done"
                        [] r.state = "loop" -> "mcf"
    /\ UNCHANGED <<grid, naive_pairs, naive_pc, naive_ret, cost_cache,
                   forbidden_cache, bf_ret, bf_first, added>>

NextGraph == GraphAddEdge \/ GraphFlowStart \/ GraphFlowPass

SpecGraph == InitGraph /\ [][NextGraph]_vars

\* ================================================================ claims
\* What the claims speak of, stated from the data model.
LexLess(c1, c2) == c1[1] < c2[1] \/ (c1[1] = c2[1] /\ c1[2] < c2[2])

CellsOf(ps) == UNION {{ps[k][1], ps[k][2]} : k \in 1..Len(ps)}

\* The list ps is a pairing: valid pairs, no cell twice.
IsPairing(ps) ==
    /\ \A k \in 1..Len(ps) : ps[k][1] # ps[k][2] /\ test_pair(ps[k][1], ps[k][2])
    /\ \A k, l \in 1..Len(ps) :
        k # l => {ps[k][1], ps[k][2]} \cap {ps[l][1], ps[l][2]} = {}

NonForbidden == {c \in GridCells : grid.color[c] # 4}

\* Score of a set P of pairs: the costs of its pairs plus the values of the
\* non-forbidden cells it does not cover.
PairingScore(P) ==
    LET covered == UNION {{p[1], p[2]} : p \in P}
    IN SumSet(P, [p \in P |-> Abs(grid.value[p[1]] - grid.value[p[2]])])
       + SumSet(NonForbidden \ covered, grid.value)

\* The valid pairs, each in its canonical orientation.
CanonicalPairs ==
    {p \in GridCells \X GridCells :
        LexLess(p[1], p[2]) /\ (test_pair(p[1], p[2]) \/ test_pair(p[2], p[1]))}

\* Every pairing of the grid, as a set of canonical pairs.
Pairings ==
    {P \in SUBSET CanonicalPairs :
        \A p, q \in P : p # q => {p[1], p[2]} \cap {q[1], q[2]} = {}}

MinScore ==
    CHOOSE x \in {PairingScore(P) : P \in Pairings} :
        \A y \in {PairingScore(P) : P \in Pairings} : x <= y

\* C1: whenever both solvers have returned a score for the grid, the score of
\* SolverBellmanFord.run() is at most the score of SolverNaive.run().
C1_BellmanFordAtMostNaive ==
    (bf_pc = "done" /\ naive_pc = "done") => bf_ret[1] <= naive_ret[1]

\* C2: the pairing SolverBellmanFord.run() leaves in pairs has the minimum
\* score among all pairings of the grid.
C2_BellmanFordOptimal ==
    bf_pc = "done" => PairingScore(Range(bf_pairs)) = MinScore

\* C3: after SolverBellmanFord.run(), pairs is a pairing: every pair passes
\* test_pair and no cell appears twice.
C3_BellmanFordPairsValid ==
    bf_pc \in {"done", "raised"} => IsPairing(bf_pairs)

C3_Witness ==
    /\ bf_pc = "done"
    /\ Len(bf_pairs) = 2
    /\ \E c \in GridCells : grid.color[c] = 1
    /\ \E c \in GridCells : grid.color[c] = 3

\* The grid is degenerate: every cell black, or a single cell.
Degenerate == NonForbidden = {} \/ (grid.n = 1 /\ grid.m = 1)

\* C4: on a degenerate grid run() of SolverBellmanFord returns normally, with
\* no pair and the sum of the non-forbidden values as the score.
C4_DegenerateGridSolved ==
    (Degenerate /\ bf_pc \notin {"init", "flow"}) =>
        /\ bf_pc = "done"
        /\ bf_pairs = <<>>
        /\ bf_ret = <<SumSet(NonForbidden, grid.value)>>

\* C5: every later run() of a SolverBellmanFord ends as its first run() on the
\* grid did: the same score returned (or the same exception) and the same pairs.
C5_RunIdempotent ==
    (bf_first # <<>> /\ bf_pc \in {"done", "raised"}) =>
        [ret |-> bf_ret, pairs |-> bf_pairs, err |-> bf_err] = bf_first[1]

\* A second run() under way, after an augmentation, the first having left two pairs.
C5_Witness ==
    /\ bf_pc = "flow"
    /\ bf_first # <<>>
    /\ Len(bf_first[1].pairs) = 2
    /\ total_cost > 0

\* C6 as stated: for every edge (u, v) given to add_edge, the reverse edge
\* exists with capacity 0 and the negated cost, and the two flows are negatives
\* of each other.
C6_ReverseEdgeAnyCalls ==
    \A k \in 1..Len(added) :
        LET u == added[k][1]
            v == added[k][2]
        IN /\ <<v, u>> \in DOMAIN graph.capacity
           /\ graph.capacity[<<v, u>>] = 0
           /\ graph.cost[<<v, u>>] = -graph.cost[<<u, v>>]
           /\ graph.flow[<<v, u>>] = -graph.flow[<<u, v>>]

\* C6, amended: the same for every edge (u, v) given to add_edge with u # v
\* and no call add_edge(v, u); the two flows are negatives of each other for
\* every edge given to add_edge.
C6_ReverseEdge ==
    \A k \in 1..Len(added) :
        LET u == added[k][1]
            v == added[k][2]
        IN /\ <<v, u>> \in DOMAIN graph.capacity
           /\ graph.flow[<<v, u>>] = -graph.flow[<<u, v>>]
           /\ (u # v /\ <<v, u>> \notin Range(added)) =>
                /\ graph.capacity[<<v, u>>] = 0
                /\ graph.cost[<<v, u>>] = -graph.cost[<<u, v>>]

\* Two edges added one way only, one with a cost, and flow pushed along both.
C6_Witness ==
    /\ bf_pc \in {"mcf", "mcf_done"}
    /\ Len(added) = 2
    /\ \A k \in 1..Len(added) :
        /\ added[k][1] # added[k][2]
        /\ <<added[k][2], added[k][1]>> \notin Range(added)
        /\ graph.flow[added[k]] > 0
    /\ \E k \in 1..Len(added) : graph.cost[added[k]] > 0

\* C7: every pair of every list all_pairs() can return passes test_pair, and
\* neither of its cells is black.
C7_AllPairsValid ==
    \A pairs \in all_pairs : \A k \in 1..Len(pairs) :
        /\ test_pair(pairs[k][1], pairs[k][2])
        /\ ~is_forbidden(pairs[k][1][1], pairs[k][1][2])
        /\ ~is_forbidden(pairs[k][2][1], pairs[k][2][2])

\* all_pairs() was called (by SolverNaive.run) on a grid with a black cell, two
\* neighbors of incompatible colors and a valid pair.
C7_Witness ==
    /\ naive_pc = "done"
    /\ Len(all_pairs_scan(0)) >= 1
    /\ \E c \in GridCells : grid.color[c] = 4
    /\ \E c1, c2 \in NonForbidden : ~non_adjacent(c1, c2) /\ colors_forbidden(c1, c2)

\* all_pairs() holds exactly the pairs of the set canonical, each once, and
\* its scan produces no pair twice.
AllPairsAre(canonical) ==
    /\ \A pairs \in all_pairs :
        /\ Range(pairs) = canonical
        /\ Len(pairs) = Cardinality(canonical)
    /\ Len(all_pairs_scan(0)) = Cardinality(canonical)

\* C8: all_pairs() holds exactly the valid pairs, each once and in its
\* canonical orientation; the scan itself produces no pair twice.
C8_AllPairsComplete == AllPairsAre(CanonicalPairs)

\* all_pairs() was called on a 2 x 2 grid with valid pairs to the right and
\* below, and with adjacent cells that are no valid pair.
C8_Witness ==
    /\ naive_pc = "done"
    /\ grid.n = 2 /\ grid.m = 2
    /\ Cardinality(CanonicalPairs) = 3
    /\ \E p \in CanonicalPairs : p[1][1] = p[2][1]
    /\ \E p \in CanonicalPairs : p[1][2] = p[2][2]

\* C9: the score a run() returns is the score of the pairing it left in pairs:
\* the costs of the pairs plus the values of the uncovered non-black cells.
C9_ScoreOfPairing ==
    /\ (naive_pc = "done" /\ IsPairing(naive_pairs)) =>
            naive_ret = <<PairingScore(Range(naive_pairs))>>
    /\ (bf_pc = "done" /\ IsPairing(bf_pairs)) =>
            bf_ret = <<PairingScore(Range(bf_pairs))>>

\* A score returned for a pairing with a pair of cost > 0, an uncovered cell
\* and a black cell.
C9_Witness ==
    /\ bf_pc = "done"
    /\ naive_pc = "done"
    /\ Len(bf_pairs) = 1
    /\ cost(bf_pairs[1]) > 0
    /\ NonForbidden \ CellsOf(bf_pairs) # {}
    /\ \E c \in GridCells : grid.color[c] = 4

\* The rule table: white with any non-black; red and blue with white, red,
\* blue; green with white, green; black with none.
TableAllows(a, c) ==
    CASE a = 0 -> c # 4
      [] a = 1 -> c \in {0, 1, 2}
      [] a = 2 -> c \in {0, 1, 2}
      [] a = 3 -> c \in {0, 3}
      [] a = 4 -> FALSE

\* C10: colors_forbidden(c1, c2) reports the pairing as allowed exactly when
\* the rule table allows color(c1) with color(c2).
C10_ColorsForbiddenIsTable ==
    \A c1, c2 \in GridCells :
        (~colors_forbidden(c1, c2)) = TableAllows(grid.color[c1], grid.color[c2])

\* C11: test_pair gives the same answer for (c1, c2) and (c2, c1), for all
\* cells of the grid, and rejects every pair (c, c).
C11_TestPairSymmetric ==
    \A c1, c2 \in GridCells :
        /\ test_pair(c1, c2) = test_pair(c2, c1)
        /\ ~test_pair(c1, c1)

\* test_pair was called (by all_pairs and by build_graph) on a grid with a
\* valid pair and with two neighbors for which the color rule, read from the
\* first cell only, answers differently in the two orders.
C11_Witness ==
    /\ naive_pc = "done"
    /\ bf_pc = "done"
    /\ \E c1, c2 \in GridCells : test_pair(c1, c2)
    /\ \E c1, c2 \in GridCells :
        ~non_adjacent(c1, c2) /\ colors_forbidden(c1, c2) # colors_forbidden(c2, c1)

\* The pairs p and q have a cell in common.
Overlap(p, q) == {p[1], p[2]} \cap {q[1], q[2]} # {}

\* C12: what SolverNaive.run() accepted is a pairing of valid pairs, accepted
\* in nondecreasing order of cost, and every valid pair it did not accept has a
\* cell in a pair accepted no later in that order (a pair of no larger cost).
C12_NaiveGreedy ==
    naive_pc = "done" =>
        /\ IsPairing(naive_pairs)
        /\ Range(naive_pairs) \subseteq CanonicalPairs
        /\ \A k \in 1..(Len(naive_pairs) - 1) :
                cost(naive_pairs[k]) <= cost(naive_pairs[k + 1])
        /\ \A p \in CanonicalPairs \ Range(naive_pairs) :
                \E q \in Range(naive_pairs) : Overlap(p, q) /\ cost(q) <= cost(p)

\* A run that accepted two pairs of different costs and rejected a valid pair.
C12_Witness ==
    /\ naive_pc = "done"
    /\ Len(naive_pairs) = 2
    /\ cost(naive_pairs[1]) < cost(naive_pairs[2])
    /\ CanonicalPairs \ Range(naive_pairs) # {}

\* C13 as stated: wherever a caller can observe a solver (constructed, or
\* after a run()), its pairs is a pairing.
C13_PairsAlwaysPairing ==
    /\ bf_pc # "flow" => IsPairing(bf_pairs)
    /\ naive_pc \in {"init", "done"} => IsPairing(naive_pairs)

\* C13, amended: pairs is a pairing after every run() of either solver and
\* right after the construction of a SolverBellmanFord; right after the
\* construction of a SolverNaive it is a list of valid pairs.
C13_PairsAfterRun ==
    /\ bf_pc # "flow" => IsPairing(bf_pairs)
    /\ naive_pc = "done" => IsPairing(naive_pairs)
    /\ naive_pc = "init" =>
            \A k \in 1..Len(naive_pairs) : test_pair(naive_pairs[k][1], naive_pairs[k][2])

\* A SolverNaive just constructed on a grid with four valid pairs, next to a
\* SolverBellmanFord whose run() left two pairs.
C13_Witness ==
    /\ naive_pc = "init"
    /\ Len(naive_pairs) = 4
    /\ bf_pc = "done"
    /\ Len(bf_pairs) = 2

\* C14: no step of a solver (construction, run()) changes the grid: its n, m,
\* color matrix and value matrix stay as they are.
C14_GridUnchanged == [][grid' = grid]_vars

\* Both solvers have run, a second time for SolverBellmanFord, and left pairs.
C14_Witness ==
    /\ naive_pc = "done"
    /\ Len(naive_pairs) >= 1
    /\ bf_pc = "done"
    /\ bf_first # <<>>
    /\ Len(added) > 0
    /\ Len(bf_pairs) >= 1

\* The flow leaving the source.
SourceFlow == SumSet({e \in DOMAIN graph.flow : e[1] = source}, graph.flow)

\* The non-forbidden cells (i, j) with i + j even.
EvenCells == {c \in NonForbidden : (c[1] + c[2]) % 2 = 0}

\* C15: min_cost_flow on the network of build_graph terminates: the flow
\* leaving the source is 0 when the loop is entered, every pass that goes on
\* with the loop (an augmentation) raises it by exactly 1, and it never exceeds
\* the number of non-forbidden even cells; so the loop is left after at most
\* that many augmentations.  (Each pass holds one complete bellman_ford call.)
C15_MinCostFlowTerminates ==
    /\ [](bf_pc \in {"flow", "done"} => SourceFlow <= Cardinality(EvenCells))
    /\ [][bf_pc' = "flow" =>
            SourceFlow' = IF bf_pc = "flow" THEN SourceFlow + 1 ELSE 0]_vars

\* min_cost_flow returned after as many augmentations as there are even cells.
C15_Witness ==
    /\ bf_pc = "done"
    /\ SourceFlow = 2
    /\ Cardinality(EvenCells) = 2
    /\ total_cost > 0

\* The total cost of a set P of pairs.
PairsCost(P) == SumSet(P, [p \in P |-> Abs(grid.value[p[1]] - grid.value[p[2]])])

\* The pairs ps are a pairing of the largest size among pairings, of the least
\* total cost among those, and tc is that cost.
OptimalAmong(pairings, ps, tc) ==
    /\ IsPairing(ps)
    /\ \A P \in pairings :
        /\ Cardinality(P) <= Len(ps)
        /\ Cardinality(P) = Len(ps) => tc <= PairsCost(P)
    /\ tc = SumCost(ps)

\* C16: when min_cost_flow has returned, the decoded pairing has the largest
\* number of pairs among the pairings of the grid (a maximum flow) and the
\* least total cost among those of that size, and the total_cost it returns is
\* the sum of Grid.cost over the decoded pairs.
C16_MinCostMaxFlow ==
    bf_pc = "done" => OptimalAmong(Pairings, bf_pairs, total_cost)

\* min_cost_flow returned two pairs of positive total cost on a grid that has
\* smaller pairings and a dearer pairing of the same size.
C16_Witness ==
    /\ bf_pc = "done"
    /\ Len(bf_pairs) = 2
    /\ total_cost > 0
    /\ \E P \in Pairings : Cardinality(P) = 2 /\ PairsCost(P) > total_cost

\* The edges of g with capacity - flow > 0.
Residual(g) == {e \in DOMAIN g.capacity : g.capacity[e] > g.flow[e]}

\* The least element of a nonempty set of numbers.
MinOf(S) == CHOOSE x \in S : \A y \in S : x <= y

RECURSIVE Shortest(_, _, _)
\* From D, the least costs of the walks of at most k residual edges more.
Shortest(g, D, k) ==
    IF k = 0 THEN D
    ELSE Shortest(g,
                  [v \in DOMAIN D |->
                      MinOf({D[v]} \cup {D[e[1]] + g.cost[e] :
                                           e \in {x \in Residual(g) : x[2] = v /\ D[x[1]] < INF}})],
                  k - 1)

\* The least cost of a residual path from s to each node of g (INF: no path);
\* a path has fewer edges than there are nodes.
ShortestDist(g, s) ==
    Shortest(g, [v \in Range(g.nodes) \cup {s} |-> IF v = s THEN 0 ELSE INF],
             Cardinality(Range(g.nodes)))

\* r, what bellman_ford(g, s, t) returned, is right: the worklist is empty, dist
\* is the map D of the least path costs, and pred[v] is the node before v on a
\* residual path of that cost (None for s and for the nodes without a path).
SearchCorrect(g, s, r, D) ==
    /\ r.queue = <<>>
    /\ r.dist = D
    /\ \A v \in DOMAIN r.pred :
        IF v = s \/ D[v] = INF THEN r.pred[v] = None
        ELSE /\ r.pred[v] # None
             /\ <<r.pred[v], v>> \in Residual(g)
             /\ D[r.pred[v]] + g.cost[<<r.pred[v], v>>] = D[v]

\* r, what bellman_ford(g, s, t) did: raised, or returned a right answer.
SearchOutcome(g, s, r) == r.err = <<>> => SearchCorrect(g, s, r, ShortestDist(g, s))

OverNegativeEdge(g, t, r) ==
    /\ r.err = <<>>
    /\ r.dist[t] < INF
    /\ \E v \in DOMAIN r.pred : r.pred[v] # None /\ g.cost[<<r.pred[v], v>>] < 0

Settled(g, D) == Shortest(g, D, 1) = D

\* No cycle of residual edges of g that can be reached from s has a negative
\* total cost: the least costs of the walks from s stop falling.
NoNegativeCycle(g, s) == Settled(g, ShortestDist(g, s))

\* C18: before every pass of the loop of min_cost_flow and when it is left, the
\* residual graph of the network has no cycle of negative total cost reachable
\* from the source.
C18_NoNegativeResidualCycle ==
    bf_pc \in {"flow", "done"} => NoNegativeCycle(graph, source)

\* A residual edge of negative cost leaves a node with a distance in D.
NegativeEdgeReached(g, D) ==
    \E e \in Residual(g) : g.cost[e] < 0 /\ D[e[1]] < INF

\* After an augmentation, with a residual edge of negative cost within reach
\* of the source.
C18_Witness ==
    /\ bf_pc = "flow"
    /\ total_cost > 0
    /\ NegativeEdgeReached(graph, ShortestDist(graph, source))

\* w = [path, flow], what the walk over pred from t found, is a path of g from
\* s to t (listed from t back) that visits no node twice, over edges of
\* residual capacity at least 1, and its bottleneck is 1.
PathSound(g, s, t, w) ==
    /\ w.flow = 1
    /\ Len(w.path) >= 1
    /\ w.path[1][2] = t
    /\ w.path[Len(w.path)][1] = s
    /\ \A k \in 1..(Len(w.path) - 1) : w.path[k][1] = w.path[k + 1][2]
    /\ \A k, l \in 1..Len(w.path) : k # l => w.path[k][2] # w.path[l][2]
    /\ \A k \in 1..Len(w.path) :
        /\ w.path[k][2] # s
        /\ g.capacity[w.path[k]] - g.flow[w.path[k]] >= 1

\* The walk of min_cost_flow over what bellman_ford returned in r.
WalkOf(g, s, t, r) == walk(g, r.pred, s, t, [path |-> <<>>, flow |-> INF])

\* r, what bellman_ford returned, gives the sink a finite distance.
SinkReached(t, r) == r.err = <<>> /\ r.dist[t] < INF

\* Whenever r gives the sink a finite distance the walk over it is sound.
WalkSound(g, s, t, r) == SinkReached(t, r) => PathSound(g, s, t, WalkOf(g, s, t, r))

\* C19: in every pass of the loop of min_cost_flow where bellman_ford reports a
\* finite dist[sink], the walk over pred from the sink reaches the source with
\* no None predecessor and no node twice, over edges of residual capacity at
\* least 1, and the bottleneck is exactly 1: the stop on flow == 0 is not taken.
C19_AugmentingPathSound ==
    bf_pc = "flow" => WalkSound(graph, source, sink, bellman_ford(graph, source, sink))

\* r gives the sink a finite distance and the walk over it has five edges:
\* it goes back over a pair that carries flow.
LongWalk(g, s, t, r) == SinkReached(t, r) /\ Len(WalkOf(g, s, t, r).path) = 5

\* A pass whose augmenting path reroutes an earlier pair.
C19_Witness ==
    /\ bf_pc = "flow"
    /\ total_cost > 0
    /\ LongWalk(graph, source, sink, bellman_ford(graph, source, sink))

\* The edges between two cells that carry a positive flow.
PositiveFlowPairs ==
    {e \in DOMAIN graph.flow :
        e[1] \notin {source, sink} /\ e[2] \notin {source, sink} /\ graph.flow[e] > 0}

\* C20: in every state of min_cost_flow on the network of build_graph no edge
\* carries more flow than its capacity, an edge given to add_edge carries 0 or
\* 1, its reciprocal edge 0 or -1; and the pairs decoded by "flow == 1" are
\* exactly the edges between cells with a positive flow.
C20_UnitFlows ==
    bf_pc \in {"flow", "done"} =>
        /\ \A e \in DOMAIN graph.flow :
            /\ graph.flow[e] <= graph.capacity[e]
            /\ e \in Range(added) => graph.flow[e] \in {0, 1}
            /\ <<e[2], e[1]>> \in Range(added) => graph.flow[e] \in {0, -1}
        /\ bf_pc = "done" =>
            /\ Range(bf_pairs) = PositiveFlowPairs
            /\ Len(bf_pairs) = Cardinality(PositiveFlowPairs)

\* min_cost_flow returned with two pairs decoded, an edge between two cells
\* that are both paired carrying no flow.
C20_Witness ==
    /\ bf_pc = "done"
    /\ Len(bf_pairs) = 2
    /\ \E e \in Range(added) :
        /\ e[1] # source
        /\ e[2] # sink
        /\ graph.flow[e] = 0
        /\ graph.flow[<<source, e[1]>>] = 1
        /\ graph.flow[<<e[2], sink>>] = 1

\* The non-forbidden cells (i, j) with i + j odd.
OddCells == NonForbidden \ EvenCells

\* The network the claim describes: the edges from the source, the edges to
\* the sink, and the edges from an even cell to an odd cell of a valid pair.
SourceEdges == {<<source, c>> : c \in EvenCells}

SinkEdges == {<<c, sink>> : c \in OddCells}

PairEdges == {e \in EvenCells \X OddCells : test_pair(e[1], e[2])}

\* The cost the claim gives the edge e of the network.
NetworkCost(e) ==
    IF e[1] = source \/ e[2] = sink THEN 0
    ELSE Abs(grid.value[e[1]] - grid.value[e[2]])

\* The edges between two cells given to add_edge.
CellEdges == {e \in Range(added) : e[1] # source /\ e[2] # sink}

\* C21: build_graph produces exactly this network: one edge source -> c for
\* every non-forbidden even cell, one edge c -> sink for every non-forbidden
\* odd cell, one edge e -> o for every even e and odd o with test_pair(e, o),
\* each of capacity 1, of cost 0 for the first two kinds and |value(e) -
\* value(o)| for the third; no forbidden cell is a node, no edge between cells
\* joins cells of the same parity, and the edges between cells are, as
\* unordered pairs, exactly the pairs of Grid.all_pairs().
C21_BuildGraphNetwork ==
    bf_pc \in {"flow", "done", "raised"} =>
        /\ Range(added) = SourceEdges \cup SinkEdges \cup PairEdges
        /\ Len(added) = Cardinality(Range(added))
        /\ DOMAIN graph.capacity =
            Range(added) \cup {<<e[2], e[1]>> : e \in Range(added)}
        /\ \A e \in Range(added) :
            /\ graph.capacity[e] = 1
            /\ graph.cost[e] = NetworkCost(e)
        /\ Range(graph.nodes) \ {source, sink} \subseteq NonForbidden
        /\ \A e \in CellEdges : (e[1][1] + e[1][2]) % 2 # (e[2][1] + e[2][2]) % 2
        /\ \A order \in all_pairs :
            /\ {{e[1], e[2]} : e \in CellEdges}
                 = {{order[k][1], order[k][2]} : k \in 1..Len(order)}
            /\ Cardinality(CellEdges) = Len(order)

\* build_graph has built the network of a grid with a black cell, two edges
\* between cells and an edge of positive cost.
C21_Witness ==
    /\ bf_pc = "flow"
    /\ total_cost = 0
    /\ NonForbidden # GridCells
    /\ Cardinality(CellEdges) = 2
    /\ \E e \in CellEdges : graph.cost[e] > 0

\* No valid pair has both its cells outside the pairs of the list ps.
Maximal(ps) ==
    \A p \in CanonicalPairs : p[1] \in CellsOf(ps) \/ p[2] \in CellsOf(ps)

\* The pairs of the list ps, as unordered pairs.
Unordered(ps) == {{ps[k][1], ps[k][2]} : k \in 1..Len(ps)}

\* What the claim says of the pairs ps a run left on a grid with a valid pair.
MaximalPairing(ps) ==
    /\ Maximal(ps)
    /\ ps # <<>>
    /\ Cardinality(CanonicalPairs) = 1 => Unordered(ps) = Unordered(all_pairs_scan(0))

\* C22: after run() of either solver on a grid with at least one valid pair
\* the pairing is maximal: no valid pair has both its cells unpaired; so the
\* only valid pair of a grid is selected, and the pairing is never empty.  (A
\* run of SolverBellmanFord that ends with an exception counts as a run.)
C22_PairingMaximal ==
    CanonicalPairs # {} =>
        /\ naive_pc = "done" => MaximalPairing(naive_pairs)
        /\ bf_pc \in {"done", "raised"} => MaximalPairing(bf_pairs)

\* Both solvers ran on a grid with several valid pairs and each left a
\* non-forbidden cell unpaired.
C22_Witness ==
    /\ naive_pc = "done"
    /\ bf_pc = "done"
    /\ Cardinality(CanonicalPairs) >= 2
    /\ NonForbidden \ CellsOf(naive_pairs) # {}
    /\ NonForbidden \ CellsOf(bf_pairs) # {}

\* Every pair of the list ps has its lexicographically smaller cell first and
\* is, as an ordered tuple, a pair of the scan of all_pairs().
CanonicalOrientation(ps) ==
    \A k \in 1..Len(ps) :
        /\ LexLess(ps[k][1], ps[k][2])
        /\ \A order \in all_pairs : ps[k] \in Range(order)

\* C23: every pair in pairs of both solvers after run() uses the canonical
\* orientation (lexicographically smaller cell first), so every pair of
\* SolverBellmanFord.pairs and of SolverNaive.pairs is, as an ordered tuple, an
\* element of Grid.all_pairs().
C23_CanonicalOrientation ==
    /\ naive_pc = "done" => CanonicalOrientation(naive_pairs)
    /\ bf_pc = "done" => CanonicalOrientation(bf_pairs)

\* C24: in SolverNaive.run() pairs of equal cost are considered in enumeration
\* order (the row-major scan, right then below), so the selected pairing and
\* its score are a function of the grid alone: whatever order the
\* deduplicating set of all_pairs() hands the pairs over in, run() leaves the
\* pairing the greedy scan selects from the pairs in enumeration order, and
\* returns its score.
C24_NaiveEnumerationOrder ==
    naive_pc = "done" =>
        /\ naive_pairs = naive_select(all_pairs_scan(0))
        /\ naive_ret = <<score(naive_select(all_pairs_scan(0)))>>

=============================================================================
